---- MODULE Spec2Model ----
(***************************************************************************)
(* A model of package epub (epub.go): the Epub value, NewEpub, AddImage,   *)
(* AddSection, the setters and getters, and the write operation that       *)
(* turns the Epub into an archive.                                         *)
(*                                                                         *)
(* A Go string is modelled as a tuple of one-character strings             *)
(* ("a.png" is <<"a", ".", "p", "n", "g">>), so that fmt.Sprintf,          *)
(* filepath.Ext and filepath.Join are computed character by character, as  *)
(* the library computes them (with "/" as the path separator).             *)
(***************************************************************************)
EXTENDS Integers, Sequences, FiniteSets, TLC

\* ---------------------------------------------------------------- bounds
\* The largest number of images and sections, taken together, that an Epub
\* of the model registers: the add calls are enabled below it.
MaxResources == 3

\* ------------------------------------------------------------- constants
ErrFilenameAlreadyUsed == "Filename already used"
NoError == "nil"

defaultEpubLang == <<"e", "n">>
urnUUIDPrefix == <<"u", "r", "n", ":", "u", "u", "i", "d", ":">>
imagePrefix == <<"i", "m", "a", "g", "e">>
sectionPrefix == <<"s", "e", "c", "t", "i", "o", "n">>
xhtmlExt == <<".", "x", "h", "t", "m", "l">>
imageFolderName == <<"i", "m", "g">>
Separator == "/"
DotDot == <<".", ".">>
Dot == <<".">>

\* --------------------------------------------------------- fmt.Sprintf %04d
DigitChars == <<"0", "1", "2", "3", "4", "5", "6", "7", "8", "9">>

RECURSIVE Decimal(_)
Decimal(n) ==
    IF n < 10 THEN <<DigitChars[n + 1]>>
    ELSE Decimal(n \div 10) \o <<DigitChars[(n % 10) + 1]>>

\* %04d: decimal, padded on the left with zeros to a width of at least four.
Pad04(n) ==
    LET d == Decimal(n)
    IN  IF Len(d) >= 4 THEN d ELSE [i \in 1..(4 - Len(d)) |-> "0"] \o d

\* fmt.Sprintf(imageFileFormat, n, ext), imageFileFormat = "image%04d%s"
imageFileFormat(n, ext) == imagePrefix \o Pad04(n) \o ext

\* fmt.Sprintf(sectionFileFormat, n), sectionFileFormat = "section%04d.xhtml"
sectionFileFormat(n) == sectionPrefix \o Pad04(n) \o xhtmlExt

\* ----------------------------------------------------------- filepath.Ext
\* The suffix beginning at the final dot in the final slash-separated
\* element of path; empty if there is no dot.
RECURSIVE ExtFrom(_, _)
ExtFrom(path, i) ==
    IF i < 1 THEN <<>>
    ELSE IF path[i] = Separator THEN <<>>
    ELSE IF path[i] = "." THEN SubSeq(path, i, Len(path))
    ELSE ExtFrom(path, i - 1)

Ext(path) == ExtFrom(path, Len(path))

\* ---------------------------------------------------------- filepath.Join
\* The elements of path between separators (empty elements included).
RECURSIVE SplitFrom(_, _, _)
SplitFrom(path, i, cur) ==
    IF i > Len(path) THEN <<cur>>
    ELSE IF path[i] = Separator THEN <<cur>> \o SplitFrom(path, i + 1, <<>>)
    ELSE SplitFrom(path, i + 1, Append(cur, path[i]))

Split(path) == SplitFrom(path, 1, <<>>)

\* One pass of filepath.Clean over the elements: empty and "." elements are
\* dropped, ".." removes the element before it when there is one that is
\* not itself "..", is dropped at the root, and is kept otherwise.
RECURSIVE CleanElems(_, _, _)
CleanElems(elems, out, rooted) ==
    IF elems = <<>> THEN out
    ELSE LET e == Head(elems)
             rest == Tail(elems)
         IN  IF e = <<>> \/ e = Dot THEN CleanElems(rest, out, rooted)
             ELSE IF e = DotDot
             THEN IF out # <<>> /\ out[Len(out)] # DotDot
                  THEN CleanElems(rest, SubSeq(out, 1, Len(out) - 1), rooted)
                  ELSE IF rooted THEN CleanElems(rest, out, rooted)
                  ELSE CleanElems(rest, Append(out, e), rooted)
             ELSE CleanElems(rest, Append(out, e), rooted)

RECURSIVE JoinElems(_)
JoinElems(elems) ==
    IF elems = <<>> THEN <<>>
    ELSE IF Len(elems) = 1 THEN elems[1]
    ELSE elems[1] \o <<Separator>> \o JoinElems(Tail(elems))

\* filepath.Clean: the shortest path equivalent to path by lexical processing.
Clean(path) ==
    IF path = <<>> THEN Dot
    ELSE LET rooted == path[1] = Separator
             out == CleanElems(Split(path), <<>>, rooted)
         IN  IF rooted THEN <<Separator>> \o JoinElems(out)
             ELSE IF out = <<>> THEN Dot
             ELSE JoinElems(out)

\* filepath.Join: the elements from the first non-empty one on, joined with
\* the separator, and the result cleaned; "" when every element is empty.
RECURSIVE Join(_)
Join(elem) ==
    IF elem = <<>> THEN <<>>
    ELSE IF elem[1] = <<>> THEN Join(Tail(elem))
    ELSE Clean(JoinElems(elem))

\* ------------------------------------------------------------- the inputs
\* Image sources: a file with an extension, and a file without one in a
\* directory whose name has a dot.
Sources ==
    { <<"g", ".", "p", "n", "g">>,
      <<"d", ".", "d", "/", "f">> }

\* Image filenames a caller passes: none, a plain name, the name the second
\* generated image gets, and a name that is not a clean path.
ImageFilenames ==
    { <<>>,
      <<"a", ".", "p", "n", "g">>,
      <<"i", "m", "a", "g", "e", "0", "0", "0", "2", ".", "p", "n", "g">>,
      <<".", "/", "a", ".", "p", "n", "g">> }

\* Section filenames a caller passes: none, a name also used for an image,
\* and the name the second generated section gets.
SectionFilenames ==
    { <<>>,
      <<"a", ".", "p", "n", "g">>,
      <<"s", "e", "c", "t", "i", "o", "n", "0", "0", "0", "2", ".", "x", "h", "t", "m", "l">> }

SectionTitles == { <<"S", "1">>, <<"S", "2">> }
SectionContents == { <<"<", "p", "/", ">">> }

\* The title passed to NewEpub and the identifier uuid.NewV4 generates.
InitTitles == { <<"T">> }
GeneratedUUIDs == { <<"1">> }

\* The values passed to the setters.
Titles == { <<"T">>, <<"U">> }
Authors == { <<"A">> }
Langs == { defaultEpubLang, <<"f", "r">> }

\* The inputs of the add calls in the behaviours that also write the archive.
WriteSources == Sources
WriteImageFilenames == { <<>>, <<"a", ".", "p", "n", "g">> }
WriteSectionFilenames == { <<>>, <<"a", ".", "p", "n", "g">> }
WriteSectionTitles == { <<"S", "1">> }
UUIDs == { <<"1">>, <<"2">> }

\* ---------------------------------------------------------------- state
\* The fields of Epub, what the calls were given and returned, and the state
\* of the write. The write is one synchronous call: while it runs
\* (wpc # "idle") no other method of the Epub does.
VARIABLES
    author,     \* Epub.author
    images,     \* Epub.images: filename -> source
    lang,       \* Epub.lang
    pkg,        \* Epub.pkg: the metadata of the package file
    sections,   \* Epub.sections: filename -> xhtml
    title,      \* Epub.title
    toc,        \* Epub.toc: the metadata of the table of contents
    uuid,       \* Epub.uuid
    ret,        \* the last add call: its arguments and what it returned
    allAuto,    \* every AddImage call so far passed an empty filename
    lastSet,    \* per field, the value last passed to its setter
    addOrder,   \* the filenames of the sections, in the order they were added
    bookState,  \* "Building" or "Written"
    wpc,        \* where the write operation is: "idle" when not running
    fetched,    \* the images whose bytes the running write has resolved
    spine,      \* the section order the running write has built
    temp,       \* the temporary archive: "absent", "partial" or "complete"
    dest,       \* the archive at the destination path, likewise
    werr        \* what the last write returned

epubVars == <<author, images, lang, pkg, sections, title, toc, uuid>>
metaVars == <<author, lang, pkg, title, toc, uuid>>
ghostVars == <<ret, allAuto, lastSet, addOrder>>
writeVars == <<bookState, wpc, fetched, spine, temp, dest, werr>>
vars == <<epubVars, ghostVars, writeVars>>

\* -------------------------------------------------------------- Go maps
EmptyMap == [k \in {} |-> <<>>]
MapPut(m, k, v) == [x \in DOMAIN m \cup {k} |-> IF x = k THEN v ELSE m[x]]
MapLen(m) == Cardinality(DOMAIN m)

\* ------------------------------------------------ pkg, toc and xhtml values
newPackage == [author |-> <<>>, lang |-> <<>>, title |-> <<>>, identifier |-> <<>>]
newToc == [title |-> <<>>, identifier |-> <<>>]
pkgSetAuthor(p, a) == [p EXCEPT !.author = a]
pkgSetLang(p, l) == [p EXCEPT !.lang = l]
pkgSetTitle(p, t) == [p EXCEPT !.title = t]
pkgSetUUID(p, u) == [p EXCEPT !.identifier = u]
tocSetTitle(t, v) == [t EXCEPT !.title = v]
tocSetUUID(t, u) == [t EXCEPT !.identifier = u]
newXhtml(content) == [title |-> <<>>, body |-> content]
xhtmlSetTitle(x, t) == [x EXCEPT !.title = t]

\* --------------------------------------------------------------- NewEpub
Unset == <<"<unset>">>
NoCall == [op |-> "none", args |-> <<>>, path |-> <<>>, err |-> NoError]

NewEpub(t, u) ==
    /\ images = EmptyMap
    /\ sections = EmptyMap
    /\ author = <<>>
    /\ lang = defaultEpubLang
    /\ title = t
    /\ uuid = u
    /\ pkg = pkgSetUUID(pkgSetTitle(pkgSetLang(newPackage, defaultEpubLang), t),
                        urnUUIDPrefix \o u)
    /\ toc = tocSetUUID(tocSetTitle(newToc, t), urnUUIDPrefix \o u)
    /\ ret = NoCall
    /\ allAuto = TRUE
    /\ lastSet = [author |-> Unset, lang |-> defaultEpubLang, title |-> t, uuid |-> u]
    /\ addOrder = <<>>
    /\ bookState = "Building"
    /\ wpc = "idle"
    /\ fetched = {}
    /\ spine = <<>>
    /\ temp = "absent"
    /\ dest = "absent"
    /\ werr = "none"

Init == \E t \in InitTitles, u \in GeneratedUUIDs : NewEpub(t, u)

\* -------------------------------------------------------------- AddImage
\* ImageFilenameFor numbering from the count itself, without the + 1.
ImageFilenameFor_NoPlusOne(imgs, imageSource, imageFilename) ==
    IF imageFilename = <<>>
    THEN imageFileFormat(MapLen(imgs), Ext(imageSource))
    ELSE imageFilename

\* ImageFilenameFor numbering from one counter shared by images and sections.
ImageFilenameFor_GlobalCounter(imgs, imageSource, imageFilename) ==
    IF imageFilename = <<>>
    THEN imageFileFormat(MapLen(imgs) + MapLen(sections) + 1, Ext(imageSource))
    ELSE imageFilename

\* The filename AddImage registers: the one passed, or a generated one.
ImageFilenameFor(imgs, imageSource, imageFilename) ==
    IF imageFilename = <<>>
    THEN imageFileFormat(MapLen(imgs) + 1, Ext(imageSource))
    ELSE imageFilename

\* ImagePath by plain concatenation, without filepath.Join's cleaning.
ImagePath_Unclean(imageFilename) ==
    DotDot \o <<Separator>> \o imageFolderName \o <<Separator>> \o imageFilename

\* filepath.Join("..", imageFolderName, imageFilename)
ImagePath(imageFilename) == Join(<<DotDot, imageFolderName, imageFilename>>)

\* AddImage storing the source before it looks the filename up.
AddImage_StoreBeforeCheck(imageSource, imageFilename) ==
    LET name == ImageFilenameFor(images, imageSource, imageFilename)
        call == [op |-> "AddImage", args |-> <<imageSource, imageFilename>>]
    IN  /\ wpc = "idle"
        /\ MapLen(images) + MapLen(sections) < MaxResources
        /\ images' = MapPut(images, name, imageSource)
        /\ IF name \in DOMAIN images
           THEN ret' = call @@ [path |-> <<>>, err |-> ErrFilenameAlreadyUsed]
           ELSE ret' = call @@ [path |-> ImagePath(name), err |-> NoError]
        /\ allAuto' = (allAuto /\ imageFilename = <<>>)
        /\ UNCHANGED <<sections, metaVars, lastSet, addOrder, writeVars>>

AddImage(imageSource, imageFilename) ==
    LET name == ImageFilenameFor(images, imageSource, imageFilename)
        call == [op |-> "AddImage", args |-> <<imageSource, imageFilename>>]
    IN  /\ wpc = "idle"
        /\ MapLen(images) + MapLen(sections) < MaxResources
        /\ IF name \in DOMAIN images
           THEN /\ ret' = call @@ [path |-> <<>>, err |-> ErrFilenameAlreadyUsed]
                /\ UNCHANGED images
           ELSE /\ images' = MapPut(images, name, imageSource)
                /\ ret' = call @@ [path |-> ImagePath(name), err |-> NoError]
        /\ allAuto' = (allAuto /\ imageFilename = <<>>)
        /\ UNCHANGED <<sections, metaVars, lastSet, addOrder, writeVars>>

\* ------------------------------------------------------------ AddSection
SectionFilenameFor(secs, sectionFilename) ==
    IF sectionFilename = <<>>
    THEN sectionFileFormat(MapLen(secs) + 1)
    ELSE sectionFilename

\* AddSection looking the filename up among the images as well.
AddSection_SharedNamespace(sectionTitle, sectionContent, sectionFilename) ==
    LET name == SectionFilenameFor(sections, sectionFilename)
        call == [op |-> "AddSection",
                 args |-> <<sectionTitle, sectionContent, sectionFilename>>]
    IN  /\ wpc = "idle"
        /\ MapLen(images) + MapLen(sections) < MaxResources
        /\ IF name \in DOMAIN sections \cup DOMAIN images
           THEN /\ ret' = call @@ [path |-> <<>>, err |-> ErrFilenameAlreadyUsed]
                /\ UNCHANGED <<sections, addOrder>>
           ELSE /\ sections' = MapPut(sections, name,
                                      xhtmlSetTitle(newXhtml(sectionContent), sectionTitle))
                /\ addOrder' = Append(addOrder, name)
                /\ ret' = call @@ [path |-> name, err |-> NoError]
        /\ UNCHANGED <<images, metaVars, allAuto, lastSet, writeVars>>

\* AddSection without the lookup: a filename in use is stored over.
AddSection_Overwrite(sectionTitle, sectionContent, sectionFilename) ==
    LET name == SectionFilenameFor(sections, sectionFilename)
        call == [op |-> "AddSection",
                 args |-> <<sectionTitle, sectionContent, sectionFilename>>]
    IN  /\ wpc = "idle"
        /\ MapLen(images) + MapLen(sections) < MaxResources
        /\ sections' = MapPut(sections, name,
                              xhtmlSetTitle(newXhtml(sectionContent), sectionTitle))
        /\ addOrder' = IF name \in DOMAIN sections THEN addOrder
                       ELSE Append(addOrder, name)
        /\ ret' = call @@ [path |-> name, err |-> NoError]
        /\ UNCHANGED <<images, metaVars, allAuto, lastSet, writeVars>>

AddSection(sectionTitle, sectionContent, sectionFilename) ==
    LET name == SectionFilenameFor(sections, sectionFilename)
        call == [op |-> "AddSection",
                 args |-> <<sectionTitle, sectionContent, sectionFilename>>]
    IN  /\ wpc = "idle"
        /\ MapLen(images) + MapLen(sections) < MaxResources
        /\ IF name \in DOMAIN sections
           THEN /\ ret' = call @@ [path |-> <<>>, err |-> ErrFilenameAlreadyUsed]
                /\ UNCHANGED <<sections, addOrder>>
           ELSE /\ sections' = MapPut(sections, name,
                                      xhtmlSetTitle(newXhtml(sectionContent), sectionTitle))
                /\ addOrder' = Append(addOrder, name)
                /\ ret' = call @@ [path |-> name, err |-> NoError]
        /\ UNCHANGED <<images, metaVars, allAuto, lastSet, writeVars>>

\* ---------------------------------------------------- getters and setters
Author == author
Lang == lang
Title == title
UUID == uuid

SetAuthor(v) ==
    /\ wpc = "idle"
    /\ author' = v
    /\ pkg' = pkgSetAuthor(pkg, v)
    /\ lastSet' = [lastSet EXCEPT !.author = v]
    /\ UNCHANGED <<images, sections, lang, title, toc, uuid,
                   ret, allAuto, addOrder, writeVars>>

SetLang(v) ==
    /\ wpc = "idle"
    /\ lang' = v
    /\ pkg' = pkgSetLang(pkg, v)
    /\ lastSet' = [lastSet EXCEPT !.lang = v]
    /\ UNCHANGED <<images, sections, author, title, toc, uuid,
                   ret, allAuto, addOrder, writeVars>>

\* SetTitle leaving the table of contents out.
SetTitle_PkgOnly(v) ==
    /\ wpc = "idle"
    /\ title' = v
    /\ pkg' = pkgSetTitle(pkg, v)
    /\ lastSet' = [lastSet EXCEPT !.title = v]
    /\ UNCHANGED <<images, sections, author, lang, uuid, toc,
                   ret, allAuto, addOrder, writeVars>>

SetTitle(v) ==
    /\ wpc = "idle"
    /\ title' = v
    /\ pkg' = pkgSetTitle(pkg, v)
    /\ toc' = tocSetTitle(toc, v)
    /\ lastSet' = [lastSet EXCEPT !.title = v]
    /\ UNCHANGED <<images, sections, author, lang, uuid,
                   ret, allAuto, addOrder, writeVars>>

\* SetUUID keeping the prefixed identifier in the uuid field too.
SetUUID_StoresURN(v) ==
    /\ wpc = "idle"
    /\ uuid' = urnUUIDPrefix \o v
    /\ pkg' = pkgSetUUID(pkg, urnUUIDPrefix \o v)
    /\ toc' = tocSetUUID(toc, urnUUIDPrefix \o v)
    /\ lastSet' = [lastSet EXCEPT !.uuid = v]
    /\ UNCHANGED <<images, sections, author, lang, title,
                   ret, allAuto, addOrder, writeVars>>

SetUUID(v) ==
    /\ wpc = "idle"
    /\ uuid' = v
    /\ pkg' = pkgSetUUID(pkg, urnUUIDPrefix \o v)
    /\ toc' = tocSetUUID(toc, urnUUIDPrefix \o v)
    /\ lastSet' = [lastSet EXCEPT !.uuid = v]
    /\ UNCHANGED <<images, sections, author, lang, title,
                   ret, allAuto, addOrder, writeVars>>

\* ------------------------------------------------------- specification
AddImageCall == \E s \in Sources, f \in ImageFilenames : AddImage(s, f)
AddSectionCall ==
    \E t \in SectionTitles, c \in SectionContents, f \in SectionFilenames :
        AddSection(t, c, f)
SetAuthorCall == \E v \in Authors : SetAuthor(v)
SetLangCall == \E v \in Langs : SetLang(v)
SetTitleCall == \E v \in Titles : SetTitle(v)
SetUUIDCall == \E v \in UUIDs : SetUUID(v)

Next ==
    \/ AddImageCall
    \/ AddSectionCall
    \/ SetAuthorCall
    \/ SetLangCall
    \/ SetTitleCall
    \/ SetUUIDCall

Spec == Init /\ [][Next]_vars

\* ------------------------------------------------------------ the write
\* Ranging over a Go map visits its keys in an order the language leaves
\* unspecified: every enumeration of the keys is a possible outcome.
RangeOrders(m) ==
    { o \in [1..MapLen(m) -> DOMAIN m] :
        \A i, j \in 1..MapLen(m) : i # j => o[i] # o[j] }

\* The extensions the media-type table knows for images.
SupportedImageExts == { <<".", "p", "n", "g">> }

\* The write returns e: nothing is left behind, the destination is as it was.
Abort(e) ==
    /\ wpc' = "idle"
    /\ werr' = e
    /\ temp' = "absent"
    /\ fetched' = {}
    /\ spine' = <<>>
    /\ UNCHANGED <<dest, bookState>>

WriteBegin ==
    /\ wpc = "idle"
    /\ bookState = "Building"
    /\ wpc' = "fetch"
    /\ werr' = "none"
    /\ fetched' = {}
    /\ spine' = <<>>
    /\ UNCHANGED <<temp, dest, bookState, epubVars, ghostVars>>

\* The bytes of one more image are resolved.
FetchResource ==
    /\ wpc = "fetch"
    /\ \E name \in DOMAIN images \ fetched : fetched' = fetched \cup {name}
    /\ UNCHANGED <<wpc, werr, spine, temp, dest, bookState, epubVars, ghostVars>>

\* The fetch collaborator fails on an image.
FetchFail ==
    /\ wpc = "fetch"
    /\ DOMAIN images \ fetched # {}
    /\ Abort("ResourceFetchFailure")
    /\ UNCHANGED <<epubVars, ghostVars>>

\* BuildDocuments with the archive opened at the destination path itself.
BuildDocuments_InPlace ==
    /\ wpc = "fetch"
    /\ fetched = DOMAIN images
    /\ \A name \in DOMAIN images : Ext(name) \in SupportedImageExts
    /\ \E o \in RangeOrders(sections) : spine' = o
    /\ wpc' = "serialize"
    /\ temp' = "partial"
    /\ dest' = "partial"
    /\ UNCHANGED <<werr, fetched, bookState, epubVars, ghostVars>>

\* The package document and the tables of contents are built from the
\* images and from the sections, ranged over in the order the map gives.
BuildDocuments ==
    /\ wpc = "fetch"
    /\ fetched = DOMAIN images
    /\ \A name \in DOMAIN images : Ext(name) \in SupportedImageExts
    /\ \E o \in RangeOrders(sections) : spine' = o
    /\ wpc' = "serialize"
    /\ temp' = "partial"
    /\ UNCHANGED <<werr, fetched, dest, bookState, epubVars, ghostVars>>

BuildFail ==
    /\ wpc = "fetch"
    /\ fetched = DOMAIN images
    /\ \E name \in DOMAIN images : Ext(name) \notin SupportedImageExts
    /\ Abort("UnsupportedMediaType")
    /\ UNCHANGED <<epubVars, ghostVars>>

\* The archive is serialized to the temporary target.
Serialize ==
    /\ wpc = "serialize"
    /\ temp = "partial"
    /\ temp' = "complete"
    /\ UNCHANGED <<wpc, werr, fetched, spine, dest, bookState, epubVars, ghostVars>>

SerializeFail ==
    /\ wpc = "serialize"
    /\ temp = "partial"
    /\ Abort("SerializationFailure")
    /\ UNCHANGED <<epubVars, ghostVars>>

\* The finished temporary archive is moved to the destination path.
Commit ==
    /\ wpc = "serialize"
    /\ temp = "complete"
    /\ dest' = "complete"
    /\ temp' = "absent"
    /\ bookState' = "Written"
    /\ werr' = "ok"
    /\ wpc' = "idle"
    /\ fetched' = {}
    /\ UNCHANGED <<spine, epubVars, ghostVars>>

WriteAddImageCall ==
    \E s \in WriteSources, f \in WriteImageFilenames : AddImage(s, f)
WriteAddSectionCall ==
    \E t \in WriteSectionTitles, c \in SectionContents, f \in WriteSectionFilenames :
        AddSection(t, c, f)

NextWrite ==
    \/ WriteAddImageCall
    \/ WriteAddSectionCall
    \/ WriteBegin
    \/ FetchResource
    \/ FetchFail
    \/ BuildDocuments
    \/ BuildFail
    \/ Serialize
    \/ SerializeFail
    \/ Commit

SpecWrite == Init /\ [][NextWrite]_vars

\* ------------------------------------------------- reading names back
HasPrefix(str, prefix) ==
    Len(str) >= Len(prefix) /\ SubSeq(str, 1, Len(prefix)) = prefix

IsDigit(c) == \E d \in 1..10 : DigitChars[d] = c
DigitValue(c) == CHOOSE d \in 0..9 : DigitChars[d + 1] = c

\* The longest run of digits of str that starts at position i.
RECURSIVE DigitRun(_, _)
DigitRun(str, i) ==
    IF i > Len(str) THEN <<>>
    ELSE IF ~IsDigit(str[i]) THEN <<>>
    ELSE <<str[i]>> \o DigitRun(str, i + 1)

RECURSIVE ValueOf(_)
ValueOf(digits) ==
    IF digits = <<>> THEN 0
    ELSE ValueOf(SubSeq(digits, 1, Len(digits) - 1)) * 10
         + DigitValue(digits[Len(digits)])

\* The sequence number written after prefix in a generated name.
SeqNumberOf(name, prefix) == ValueOf(DigitRun(name, Len(prefix) + 1))

\* name is prefix, the number n in at least four digits, and ext.
GeneratedAs(name, prefix, n, ext) ==
    /\ HasPrefix(name, prefix)
    /\ LET run == DigitRun(name, Len(prefix) + 1)
       IN  /\ Len(run) >= 4
           /\ ValueOf(run) = n
           /\ name = prefix \o run \o ext

\* The last element of a slash-separated path.
BaseName(path) ==
    LET elems == Split(path)
    IN  elems[Len(elems)]

\* "../img/"
ImageDir == <<".", ".", "/", "i", "m", "g", "/">>

\* The filename the call recorded in r registers, given the maps before it.
CallName(r, imgs, secs) ==
    IF r.op = "AddImage" THEN ImageFilenameFor(imgs, r.args[1], r.args[2])
    ELSE SectionFilenameFor(secs, r.args[3])

\* The call recorded in r found its filename in use in its own namespace.
CallIsDuplicate(r, imgs, secs) ==
    IF r.op = "AddImage" THEN CallName(r, imgs, secs) \in DOMAIN imgs
    ELSE CallName(r, imgs, secs) \in DOMAIN secs

\* ------------------------------------------------------------------ C1
\* C1: an add call whose resulting filename, passed or generated, is already
\* registered in its own kind's namespace returns ErrFilenameAlreadyUsed
\* with an empty path, and the images, the sections (so their sizes too) and
\* all metadata are as before the call.
C1_DuplicateLeavesBookUnchanged ==
    [][ (ret' # ret /\ CallIsDuplicate(ret', images, sections))
        => /\ ret'.err = ErrFilenameAlreadyUsed
           /\ ret'.path = <<>>
           /\ images' = images
           /\ sections' = sections
           /\ MapLen(images') = MapLen(images)
           /\ MapLen(sections') = MapLen(sections)
           /\ metaVars' = metaVars ]_vars

\* A generated image name has collided with a registered one, and a passed
\* section name likewise.
C1_Witness ==
    /\ ret.op = "AddImage"
    /\ ret.args[2] = <<>>
    /\ ret.err = ErrFilenameAlreadyUsed
    /\ MapLen(images) >= 1
    /\ MapLen(sections) >= 1

\* ------------------------------------------------------------------ C2
\* C2: as long as every AddImage call on a new Epub has passed an empty
\* filename, every such call has succeeded, the generated names are pairwise
\* distinct, and their sequence numbers are 1, 2, 3, ... in call order: the
\* call that has just returned got the number of images registered so far,
\* and the registered names carry exactly the numbers 1..n.
C2_GeneratedNamesIncrease ==
    allAuto =>
        /\ ret.op = "AddImage" =>
              /\ ret.err = NoError
              /\ HasPrefix(ret.path, ImageDir)
              /\ GeneratedAs(BaseName(ret.path), imagePrefix, MapLen(images),
                             Ext(ret.args[1]))
        /\ \A k \in DOMAIN images : HasPrefix(k, imagePrefix)
        /\ { SeqNumberOf(k, imagePrefix) : k \in DOMAIN images } = 1..MapLen(images)
        /\ \A k1, k2 \in DOMAIN images :
              SeqNumberOf(k1, imagePrefix) = SeqNumberOf(k2, imagePrefix) => k1 = k2

\* Three images were added, each under a generated name.
C2_Witness ==
    /\ allAuto
    /\ ret.op = "AddImage"
    /\ MapLen(images) >= 3

\* ------------------------------------------------------------------ C3
\* C3: an add call with an empty filename generates the name numbered
\* (entries registered in its own kind's namespace) + 1, whatever the
\* number of entries of the other kind: on success that is the name
\* returned and stored, on failure that name is the one found in use.
C3_SequenceIsOwnCountPlusOne ==
    [][ /\ (ret' # ret /\ ret'.op = "AddImage" /\ ret'.args[2] = <<>>) =>
              IF ret'.err = NoError
              THEN \E k \in DOMAIN images' \ DOMAIN images :
                       /\ GeneratedAs(k, imagePrefix, MapLen(images) + 1,
                                      Ext(ret'.args[1]))
                       /\ ret'.path = ImageDir \o k
              ELSE \E k \in DOMAIN images :
                       GeneratedAs(k, imagePrefix, MapLen(images) + 1,
                                   Ext(ret'.args[1]))
        /\ (ret' # ret /\ ret'.op = "AddSection" /\ ret'.args[3] = <<>>) =>
              IF ret'.err = NoError
              THEN \E k \in DOMAIN sections' \ DOMAIN sections :
                       /\ GeneratedAs(k, sectionPrefix, MapLen(sections) + 1, xhtmlExt)
                       /\ ret'.path = k
              ELSE \E k \in DOMAIN sections :
                       GeneratedAs(k, sectionPrefix, MapLen(sections) + 1, xhtmlExt) ]_vars

\* After a section and an image under a passed name, the next generated
\* image name is image0002.png.
C3_Witness ==
    /\ ret.op = "AddImage"
    /\ ret.args[2] = <<>>
    /\ ret.err = NoError
    /\ ret.path = ImageDir \o imageFileFormat(2, <<".", "p", "n", "g">>)
    /\ <<"a", ".", "p", "n", "g">> \in DOMAIN images
    /\ MapLen(images) = 2
    /\ MapLen(sections) = 1

\* ------------------------------------------------------------------ C5
\* C5: in every reachable state the title of the package metadata and the
\* title of the toc metadata both equal Title(), and the identifier of the
\* package metadata and that of the toc metadata both equal
\* "urn:uuid:" + UUID().
C5_MetadataMirrored ==
    /\ pkg.title = Title
    /\ toc.title = Title
    /\ pkg.identifier = urnUUIDPrefix \o UUID
    /\ toc.identifier = urnUUIDPrefix \o UUID

\* SetTitle and SetUUID have both changed the value NewEpub set, and an
\* image and a section have been added.
C5_Witness ==
    /\ title \notin InitTitles
    /\ uuid \notin GeneratedUUIDs
    /\ MapLen(images) >= 1
    /\ MapLen(sections) >= 1

\* ------------------------------------------------------------------ C6
\* C6: each getter returns exactly the value last passed to its setter (UUID
\* without the urn prefix), whatever add calls and setters of other fields
\* have run since.
C6_GettersReturnLastSet ==
    /\ lastSet.author # Unset => Author = lastSet.author
    /\ Title = lastSet.title
    /\ UUID = lastSet.uuid
    /\ Lang = lastSet.lang

\* Every setter has changed its field, and adds have run.
C6_Witness ==
    /\ lastSet.author \in Authors
    /\ lastSet.title \notin InitTitles
    /\ lastSet.uuid \notin GeneratedUUIDs
    /\ lastSet.lang # defaultEpubLang
    /\ MapLen(images) >= 1
    /\ MapLen(sections) >= 1

\* ------------------------------------------------------------------ C7
\* C7: an add call fails with ErrFilenameAlreadyUsed exactly when its
\* filename is already registered in its own kind's namespace; a filename
\* registered only in the other kind's namespace does not make it fail, and
\* a successful add registers a filename that was not in its namespace.
C7_NamespacesIndependent ==
    [][ ret' # ret =>
          \A k \in {CallName(ret', images, sections)} :
              /\ (ret'.err = ErrFilenameAlreadyUsed)
                    <=> (k \in IF ret'.op = "AddImage" THEN DOMAIN images
                                ELSE DOMAIN sections)
              /\ (ret'.op = "AddImage" /\ ret'.err = NoError) =>
                    /\ k \notin DOMAIN images
                    /\ k \in DOMAIN images'
              /\ (ret'.op = "AddSection" /\ ret'.err = NoError) =>
                    /\ k \notin DOMAIN sections
                    /\ k \in DOMAIN sections' ]_vars

\* One filename is registered as an image and as a section, and the add that
\* registered it second succeeded.
C7_Witness ==
    /\ ret.err = NoError
    /\ ret.op = "AddSection"
    /\ ret.path \in DOMAIN images
    /\ ret.path \in DOMAIN sections

\* ------------------------------------------------------------------ C4
\* C4: the order of the sections the Epub holds, and so the order of the
\* spine and of the tables of contents built from it, is the order in which
\* the sections were added.
C4_SpineIsInsertionOrder ==
    wpc = "serialize" => spine = addOrder

\* ------------------------------------------------------------------ C8
\* No element of the slash-separated name is empty, "." or "..".
PlainName(name) ==
    LET elems == Split(name)
    IN  \A i \in 1..Len(elems) : elems[i] \notin {<<>>, Dot, DotDot}

\* C8 as stated: a successful AddImage registers the filename with the given
\* source and returns exactly "../img/" followed by that filename, and a
\* successful AddSection returns exactly the filename it registered.
C8_ExactPath ==
    /\ (ret.op = "AddImage" /\ ret.err = NoError) =>
          \E k \in DOMAIN images :
              /\ images[k] = ret.args[1]
              /\ ret.args[2] # <<>> => k = ret.args[2]
              /\ ret.path = ImageDir \o k
    /\ (ret.op = "AddSection" /\ ret.err = NoError) =>
          /\ ret.path \in DOMAIN sections
          /\ ret.args[3] # <<>> => ret.path = ret.args[3]

\* C8, amended: a successful AddImage registers the filename with the given
\* source and returns "../img/<filename>" lexically cleaned, which is
\* exactly "../img/<filename>" when no element of the filename is empty, "."
\* or ".." (a generated name never has one); a successful AddSection
\* registers the section and returns exactly its filename; and a path is
\* returned if and only if the entry was stored.
C8_PathIsCleanedJoin ==
    [][ ret' # ret =>
          \A k \in {CallName(ret', images, sections)} :
              /\ (ret'.op = "AddImage" /\ ret'.err = NoError) =>
                    /\ k \in DOMAIN images'
                    /\ images'[k] = ret'.args[1]
                    /\ ret'.path = Clean(ImageDir \o k)
                    /\ PlainName(k) => ret'.path = ImageDir \o k
                    /\ ret'.args[2] = <<>> => PlainName(k)
              /\ (ret'.op = "AddSection" /\ ret'.err = NoError) =>
                    /\ k \in DOMAIN sections'
                    /\ sections'[k] = [title |-> ret'.args[1], body |-> ret'.args[2]]
                    /\ ret'.path = k
              /\ (ret'.path # <<>>) <=> (ret'.err = NoError)
              /\ (ret'.path # <<>>) <=> (images' # images \/ sections' # sections) ]_vars

\* An image was added under "./a.png" and the path returned is
\* "../img/a.png".
C8_Witness ==
    /\ ret.op = "AddImage"
    /\ ret.err = NoError
    /\ ret.args[2] = <<".", "/", "a", ".", "p", "n", "g">>
    /\ ret.path = ImageDir \o <<"a", ".", "p", "n", "g">>
    /\ ret.args[2] \in DOMAIN images

\* ------------------------------------------------------------------ C9
\* C9: a write that fails (a fetch fails, a media type is unsupported, the
\* serialization fails) returns an error and leaves no archive, partial or
\* whole, at the destination path; the destination never holds a partial
\* archive; and the Epub is Written exactly when a write has succeeded and
\* the whole archive is at the destination.
WriteFailures ==
    {"ResourceFetchFailure", "UnsupportedMediaType", "SerializationFailure"}

C9_NoPartialArchive ==
    /\ dest # "partial"
    /\ werr \in WriteFailures =>
          /\ dest = "absent"
          /\ temp = "absent"
          /\ bookState = "Building"
    /\ bookState = "Written" <=> (werr = "ok" /\ dest = "complete")
    /\ dest = "complete" => bookState = "Written"

\* A write has failed while serializing, after its temporary archive was
\* partly written.
C9_Witness ==
    /\ werr = "SerializationFailure"
    /\ wpc = "idle"
    /\ MapLen(images) >= 1
    /\ MapLen(sections) >= 1

\* ----------------------------------------------------------------- C10
\* C10: no registered image or section is ever removed, and what is stored
\* under a registered filename is never replaced; a step that changes the
\* images adds exactly one key and leaves the sections and the metadata
\* alone, a step that changes the sections adds exactly one key and leaves
\* the images and the metadata alone, a successful add changes its own map,
\* and a step that changes the metadata leaves both maps alone.
C10_AppendOnlyAndFramed ==
    [][ /\ \A k \in DOMAIN images : k \in DOMAIN images' /\ images'[k] = images[k]
        /\ \A k \in DOMAIN sections : k \in DOMAIN sections' /\ sections'[k] = sections[k]
        /\ images' # images =>
              /\ MapLen(images') = MapLen(images) + 1
              /\ sections' = sections
              /\ metaVars' = metaVars
              /\ ret'.op = "AddImage" /\ ret'.err = NoError
        /\ sections' # sections =>
              /\ MapLen(sections') = MapLen(sections) + 1
              /\ images' = images
              /\ metaVars' = metaVars
              /\ ret'.op = "AddSection" /\ ret'.err = NoError
        /\ (ret' # ret /\ ret'.err = NoError) =>
              IF ret'.op = "AddImage" THEN images' # images ELSE sections' # sections
        /\ metaVars' # metaVars => (images' = images /\ sections' = sections) ]_vars

\* Images, sections and metadata have all been changed, and a second
\* section was added under a filename next to the first.
C10_Witness ==
    /\ MapLen(images) >= 1
    /\ MapLen(sections) >= 2
    /\ lastSet.author \in Authors

====
